---- MODULE Spec2Model ----
(***************************************************************************)
(* Model of the NixOS-WSL boot shim, utils/src/shim.rs.                     *)
(*                                                                         *)
(* Spec        the program: main() running real_main() from process start  *)
(*             to process exit or to the replacement of the process image. *)
(* SpecHarness the crate's functions called one at a time, the way the     *)
(*             tests module of shim.rs calls them.                         *)
(*                                                                         *)
(* Every system call is a step of the environment as well: a call whose    *)
(* outcome depends on state the model holds (stat, the mount moves, the    *)
(* waits) is decided by that state, and every call except stat may also    *)
(* fail for a reason outside the model, with an errno drawn from a small   *)
(* set.                                                                    *)
(***************************************************************************)
EXTENDS Integers, Sequences, FiniteSets, TLC

VARIABLES
    mode,        \* "main": the program; "harness": functions called directly
    pc,          \* position in main / real_main / the called function
    argv,        \* the argument vector the shim was started with
    fs,          \* /dev/shm, /run/shm and what is mounted on them
    fs0,         \* fs as it was when the process started
    prop,        \* propagation type of the root mount and of its submounts
    store,       \* mounts stacked on /nix/store by the shim, flag of the top one
    oplog,       \* the system calls made so far, with their results
    done,        \* the pipeline steps that returned success, in order
    result,      \* the value real_main (or the called function) returned
    logged,      \* what main wrote with log::error!
    exitStatus,  \* NotExited, or the status the process terminated with
    fds,         \* descriptors of /dev/kmsg: open in the shim, times closed
    child,       \* the activation process
    waitRes,     \* what child.wait() and waitid() returned
    execArgv,    \* the argument vector handed to exec
    execCount,   \* number of exec calls made
    shimEnv,     \* names of the variables set in the shim's own environment
    calls        \* harness only: the calls made so far

vars == <<mode, pc, argv, fs, fs0, prop, store, oplog, done, result, logged,
          exitStatus, fds, child, waitRes, execArgv, execCount, shimEnv, calls>>

(***************************************************************************)
(* Bounds                                                                  *)
(***************************************************************************)
MaxArgs == 1      \* arguments after argv[0]
MaxCode == 2      \* exit codes 0..MaxCode; the harness also passes -MaxCode..-1
MaxCalls == 2     \* calls the harness makes

ArgWords == {"--a", "b"}
NotExited == [exited |-> FALSE, status |-> 0]
Exited(n) == [exited |-> TRUE, status |-> n]
PanicStatus == 101

(***************************************************************************)
(* Results: anyhow::Result<()> with its context string and its cause.      *)
(***************************************************************************)
NoCause == [kind |-> "none", errno |-> "", code |-> 0]
Ok == [ok |-> TRUE, ctx |-> "", cause |-> NoCause]
ErrnoCause(e) == [kind |-> "errno", errno |-> e, code |-> 0]
Err(ctx, cause) == [ok |-> FALSE, ctx |-> ctx, cause |-> cause]
Unset == [ok |-> FALSE, ctx |-> "unset", cause |-> NoCause]

\* Option<i32>
None == [some |-> FALSE, val |-> 0]
Some(n) == [some |-> TRUE, val |-> n]

\* errnos given to the failures whose reason is outside the model
OpErrnos == {"EPERM"}
DirectWaitErrnos == {"EINVAL"}
WaitidErrnos == {"EINTR", "EINVAL"}

(***************************************************************************)
(* The file system as the shim sees it.                                    *)
(*   devShm   what lstat finds at /dev/shm: "absent", "symlink" (the       *)
(*            symlink WSL provisions, pointing at /run/shm) or "dir"       *)
(*   runShm   what is at /run/shm: "absent" or "dir"                       *)
(*   mntDev   the file systems mounted on /dev/shm, the visible one last   *)
(*   mntRun   the file systems mounted on /run/shm, the visible one last   *)
(*   shmData  whether the shared-memory tmpfs "shm" holds any file         *)
(***************************************************************************)
MountStacks == {<<>>, <<"shm">>}

FsStates ==
    {f \in [devShm : {"absent", "symlink", "dir"}, runShm : {"absent", "dir"},
            mntDev : MountStacks, mntRun : MountStacks, shmData : BOOLEAN] :
        /\ f.mntDev # <<>> => f.devShm = "dir"
        /\ f.mntRun # <<>> => f.runShm = "dir"
        /\ f.shmData => (f.mntDev # <<>> \/ f.mntRun # <<>>)}

Front(s) == SubSeq(s, 1, Len(s) - 1)
Last(s) == s[Len(s)]

\* std::fs::metadata: stat(2), which follows a symlink in the last component
Metadata(f) ==
    IF f.devShm = "absent" THEN [ok |-> FALSE, ftype |-> "", errno |-> "ENOENT"]
    ELSE IF f.devShm = "symlink"
         THEN IF f.runShm = "dir" THEN [ok |-> TRUE, ftype |-> "dir", errno |-> ""]
              ELSE [ok |-> FALSE, ftype |-> "", errno |-> "ENOENT"]
    ELSE [ok |-> TRUE, ftype |-> "dir", errno |-> ""]

\* std::fs::symlink_metadata: lstat(2)
SymlinkMetadata(f) ==
    IF f.devShm = "absent" THEN [ok |-> FALSE, ftype |-> "", errno |-> "ENOENT"]
    ELSE [ok |-> TRUE, ftype |-> f.devShm, errno |-> ""]

\* Metadata::is_symlink
IsSymlinkOrDir(m) == m.ftype \in {"symlink", "dir"}
IsSymlink(m) == m.ftype = "symlink"

\* Path::is_symlink and Path::is_dir: false when the metadata call fails
PathIsSymlink(f) == SymlinkMetadata(f).ok /\ IsSymlink(SymlinkMetadata(f))
PathIsDir(f) == Metadata(f).ok /\ Metadata(f).ftype = "dir"

\* the file system a path on /dev/shm resolves to
VisibleAtDevShm(f) == IF f.mntDev = <<>> THEN "devdir" ELSE Last(f.mntDev)

Log(step, op, res) == Append(oplog, [step |-> step, op |-> op, res |-> res])

(***************************************************************************)
(* Return of a step: `?` hands an error to the caller of real_main (or of  *)
(* the function the harness called); success goes on with the next         *)
(* statement of real_main.                                                 *)
(***************************************************************************)
StepOk(step, nextMain) ==
    /\ pc' = IF mode = "main" THEN nextMain ELSE "h_ret"
    /\ done' = Append(done, step)
    /\ result' = IF mode = "main" THEN result ELSE Ok

StepErr(ctx, cause) ==
    /\ pc' = IF mode = "main" THEN "ret" ELSE "h_ret"
    /\ result' = Err(ctx, cause)
    /\ UNCHANGED done

(***************************************************************************)
(* real_main, lines 47-54: the check of /dev/shm                            *)
(***************************************************************************)
CheckShmNoGuard ==
    /\ pc = "check_shm"
    /\ LET m == Metadata(fs) IN
        /\ oplog' = Log("shm", "metadata", IF m.ok THEN "Ok" ELSE m.errno)
        /\ IF ~m.ok THEN StepErr("When checking /dev/shm", ErrnoCause(m.errno))
           ELSE /\ pc' = "u_remove"
                /\ UNCHANGED <<done, result>>
    /\ UNCHANGED <<mode, argv, fs, fs0, prop, store, logged, exitStatus, fds,
                   child, waitRes, execArgv, execCount, shimEnv, calls>>

CheckShm ==
    /\ pc = "check_shm"
    /\ LET m == Metadata(fs) IN
        /\ oplog' = Log("shm", "metadata", IF m.ok THEN "Ok" ELSE m.errno)
        /\ IF ~m.ok THEN StepErr("When checking /dev/shm", ErrnoCause(m.errno))
           ELSE IF IsSymlink(m)
                THEN /\ pc' = "u_remove"
                     /\ UNCHANGED <<done, result>>
                ELSE StepOk("shm", "remount_root")
    /\ UNCHANGED <<mode, argv, fs, fs0, prop, store, logged, exitStatus, fds,
                   child, waitRes, execArgv, execCount, shimEnv, calls>>

(***************************************************************************)
(* unscrew_dev_shm                                                         *)
(***************************************************************************)
\* lines 19-23: remove_file of the symlink, or remove_dir_all of a directory
URemove ==
    /\ pc = "u_remove"
    /\ \E out \in {"Ok"} \cup OpErrnos :
        IF PathIsSymlink(fs)
        THEN /\ oplog' = Log("shm", "remove_file", out)
             /\ IF out = "Ok"
                THEN /\ fs' = [fs EXCEPT !.devShm = "absent"]
                     /\ pc' = "u_create"
                     /\ UNCHANGED <<done, result>>
                ELSE /\ StepErr("When removing /dev/shm symlink", ErrnoCause(out))
                     /\ UNCHANGED fs
        ELSE IF PathIsDir(fs)
        THEN IF fs.mntDev # <<>>
             \* a mount point: its contents go, the rmdir of the root fails
             THEN /\ out = "Ok"
                  /\ oplog' = Log("shm", "remove_dir_all", "EBUSY")
                  /\ fs' = [fs EXCEPT !.shmData =
                                IF VisibleAtDevShm(fs) = "shm" THEN FALSE ELSE @]
                  /\ StepErr("When removing old /dev/shm", ErrnoCause("EBUSY"))
             ELSE /\ oplog' = Log("shm", "remove_dir_all", out)
                  /\ IF out = "Ok"
                     THEN /\ fs' = [fs EXCEPT !.devShm = "absent"]
                          /\ pc' = "u_create"
                          /\ UNCHANGED <<done, result>>
                     ELSE /\ StepErr("When removing old /dev/shm", ErrnoCause(out))
                          /\ UNCHANGED fs
        ELSE /\ out = "Ok"
             /\ pc' = "u_create"
             /\ UNCHANGED <<fs, oplog, done, result>>
    /\ UNCHANGED <<mode, argv, fs0, prop, store, logged, exitStatus, fds,
                   child, waitRes, execArgv, execCount, shimEnv, calls>>

\* line 25: create_dir_all("/dev/shm")
UCreate ==
    /\ pc = "u_create"
    /\ \E out \in {"Ok"} \cup OpErrnos :
        IF PathIsDir(fs)
        THEN /\ out = "Ok"
             /\ oplog' = Log("shm", "create_dir_all", "Ok")
             /\ pc' = "u_move"
             /\ UNCHANGED <<fs, done, result>>
        ELSE IF fs.devShm = "symlink"
        THEN /\ out = "Ok"
             /\ oplog' = Log("shm", "create_dir_all", "EEXIST")
             /\ StepErr("When creating new /dev/shm", ErrnoCause("EEXIST"))
             /\ UNCHANGED fs
        ELSE /\ oplog' = Log("shm", "create_dir_all", out)
             /\ IF out = "Ok"
                THEN /\ fs' = [fs EXCEPT !.devShm = "dir"]
                     /\ pc' = "u_move"
                     /\ UNCHANGED <<done, result>>
                ELSE /\ StepErr("When creating new /dev/shm", ErrnoCause(out))
                     /\ UNCHANGED fs
    /\ UNCHANGED <<mode, argv, fs0, prop, store, logged, exitStatus, fds,
                   child, waitRes, execArgv, execCount, shimEnv, calls>>

\* lines 26-33: mount("/run/shm", "/dev/shm", MS_MOVE)
UMoveIgnoreErr ==
    /\ pc = "u_move"
    /\ \E out \in {"Ok"} \cup OpErrnos :
        LET res == IF fs.runShm = "absent" THEN "ENOENT"
                   ELSE IF fs.mntRun = <<>> THEN "EINVAL"
                   ELSE out
        IN  /\ (res # out) => out = "Ok"
            /\ oplog' = Log("shm", "mount_move", res)
            /\ fs' = IF res = "Ok"
                     THEN [fs EXCEPT !.mntRun = Front(fs.mntRun),
                                     !.mntDev = Append(fs.mntDev, Last(fs.mntRun))]
                     ELSE fs
            /\ pc' = "u_bind"
            /\ UNCHANGED <<done, result>>
    /\ UNCHANGED <<mode, argv, fs0, prop, store, logged, exitStatus, fds,
                   child, waitRes, execArgv, execCount, shimEnv, calls>>

UMove ==
    /\ pc = "u_move"
    /\ \E out \in {"Ok"} \cup OpErrnos :
        LET res == IF fs.runShm = "absent" THEN "ENOENT"
                   ELSE IF fs.mntRun = <<>> THEN "EINVAL"
                   ELSE out
        IN  /\ (res # out) => out = "Ok"
            /\ oplog' = Log("shm", "mount_move", res)
            /\ IF res = "Ok"
               THEN /\ fs' = [fs EXCEPT !.mntRun = Front(fs.mntRun),
                                        !.mntDev = Append(fs.mntDev, Last(fs.mntRun))]
                    /\ pc' = "u_bind"
                    /\ UNCHANGED <<done, result>>
               ELSE /\ StepErr("When relocating /dev/shm", ErrnoCause(res))
                    /\ UNCHANGED fs
    /\ UNCHANGED <<mode, argv, fs0, prop, store, logged, exitStatus, fds,
                   child, waitRes, execArgv, execCount, shimEnv, calls>>

\* lines 34-43: mount("/dev/shm", "/run/shm", MS_BIND), then Ok(())
UBind ==
    /\ pc = "u_bind"
    /\ \E out \in {"Ok"} \cup OpErrnos :
        LET res == IF fs.runShm = "absent" \/ fs.devShm # "dir" THEN "ENOENT"
                   ELSE out
        IN  /\ (res # out) => out = "Ok"
            /\ oplog' = Log("shm", "mount_bind", res)
            /\ IF res = "Ok"
               THEN /\ fs' = [fs EXCEPT !.mntRun = Append(fs.mntRun, VisibleAtDevShm(fs))]
                    /\ StepOk("shm", "remount_root")
               ELSE /\ StepErr("When bind mounting /run/shm to /dev/shm", ErrnoCause(res))
                    /\ UNCHANGED fs
    /\ UNCHANGED <<mode, argv, fs0, prop, store, logged, exitStatus, fds,
                   child, waitRes, execArgv, execCount, shimEnv, calls>>

(***************************************************************************)
(* Mount Normalizer                                                        *)
(***************************************************************************)
\* remount_root_shared: mount(None, "/", MS_REC | MS_SHARED)
RemountRootSharedNonRec ==
    /\ pc = "remount_root"
    /\ \E out \in {"Ok"} \cup OpErrnos :
        /\ oplog' = Log("root", "mount_rec_shared", out)
        /\ IF out = "Ok"
           THEN /\ prop' = [prop EXCEPT !.root = "shared"]
                /\ StepOk("root", "store_bind")
           ELSE /\ StepErr("When remounting /", ErrnoCause(out))
                /\ UNCHANGED prop
    /\ UNCHANGED <<mode, argv, fs, fs0, store, logged, exitStatus, fds,
                   child, waitRes, execArgv, execCount, shimEnv, calls>>

RemountRootSharedIgnoreErr ==
    /\ pc = "remount_root"
    /\ \E out \in {"Ok"} \cup OpErrnos :
        /\ oplog' = Log("root", "mount_rec_shared", out)
        /\ prop' = IF out = "Ok" THEN [root |-> "shared", sub |-> "shared"] ELSE prop
        /\ StepOk("root", "store_bind")
    /\ UNCHANGED <<mode, argv, fs, fs0, store, logged, exitStatus, fds,
                   child, waitRes, execArgv, execCount, shimEnv, calls>>

RemountRootShared ==
    /\ pc = "remount_root"
    /\ \E out \in {"Ok"} \cup OpErrnos :
        /\ oplog' = Log("root", "mount_rec_shared", out)
        /\ IF out = "Ok"
           THEN /\ prop' = [root |-> "shared", sub |-> "shared"]
                /\ StepOk("root", "store_bind")
           ELSE /\ StepErr("When remounting /", ErrnoCause(out))
                /\ UNCHANGED prop
    /\ UNCHANGED <<mode, argv, fs, fs0, store, logged, exitStatus, fds,
                   child, waitRes, execArgv, execCount, shimEnv, calls>>

\* remount_nix_store_readonly, lines 120-127: mount(store, store, MS_BIND)
StoreBind ==
    /\ pc = "store_bind"
    /\ \E out \in {"Ok"} \cup OpErrnos :
        /\ oplog' = Log("store", "mount_bind", out)
        /\ IF out = "Ok"
           THEN /\ store' = [store EXCEPT !.binds = @ + 1]
                /\ pc' = "store_ro"
                /\ UNCHANGED <<done, result>>
           ELSE /\ StepErr("When bind mounting /nix/store", ErrnoCause(out))
                /\ UNCHANGED store
    /\ UNCHANGED <<mode, argv, fs, fs0, prop, logged, exitStatus, fds,
                   child, waitRes, execArgv, execCount, shimEnv, calls>>

\* lines 129-137: mount(store, store, MS_BIND | MS_REMOUNT | MS_RDONLY)
StoreRemountRORollback ==
    /\ pc = "store_ro"
    /\ \E out \in {"Ok"} \cup OpErrnos :
        /\ oplog' = Log("store", "mount_remount_ro", out)
        /\ IF out = "Ok"
           THEN /\ store' = [store EXCEPT !.ro = TRUE]
                /\ StepOk("store", "open_kmsg")
           ELSE /\ StepErr("When remounting /nix/store read-only", ErrnoCause(out))
                /\ store' = [store EXCEPT !.binds = @ - 1]
    /\ UNCHANGED <<mode, argv, fs, fs0, prop, logged, exitStatus, fds,
                   child, waitRes, execArgv, execCount, shimEnv, calls>>

StoreRemountROIgnoreErr ==
    /\ pc = "store_ro"
    /\ \E out \in {"Ok"} \cup OpErrnos :
        /\ oplog' = Log("store", "mount_remount_ro", out)
        /\ store' = IF out = "Ok" THEN [store EXCEPT !.ro = TRUE] ELSE store
        /\ StepOk("store", "open_kmsg")
    /\ UNCHANGED <<mode, argv, fs, fs0, prop, logged, exitStatus, fds,
                   child, waitRes, execArgv, execCount, shimEnv, calls>>

StoreRemountRO ==
    /\ pc = "store_ro"
    /\ \E out \in {"Ok"} \cup OpErrnos :
        /\ oplog' = Log("store", "mount_remount_ro", out)
        /\ IF out = "Ok"
           THEN /\ store' = [store EXCEPT !.ro = TRUE]
                /\ StepOk("store", "open_kmsg")
           ELSE /\ StepErr("When remounting /nix/store read-only", ErrnoCause(out))
                /\ UNCHANGED store
    /\ UNCHANGED <<mode, argv, fs, fs0, prop, logged, exitStatus, fds,
                   child, waitRes, execArgv, execCount, shimEnv, calls>>

(***************************************************************************)
(* Activation Supervisor                                                   *)
(***************************************************************************)
FdNames == {"kmsg_fd", "kmsg_fd_err"}

\* close(2) of the descriptors in s
CloseFds(s) == [open |-> fds.open \ s,
                closes |-> [n \in FdNames |-> IF n \in s THEN fds.closes[n] + 1
                                              ELSE fds.closes[n]]]

\* lines 64-68: open /dev/kmsg for writing, into_raw_fd
OpenKmsg ==
    /\ pc = "open_kmsg"
    /\ \E out \in {"Ok"} \cup OpErrnos :
        /\ oplog' = Log("activate", "open_kmsg", out)
        /\ IF out = "Ok"
           THEN /\ fds' = [fds EXCEPT !.open = @ \cup {"kmsg_fd"}]
                /\ pc' = "dup"
                /\ UNCHANGED <<done, result>>
           ELSE /\ StepErr("When opening /dev/kmsg", ErrnoCause(out))
                /\ UNCHANGED fds
    /\ UNCHANGED <<mode, argv, fs, fs0, prop, store, logged, exitStatus,
                   child, waitRes, execArgv, execCount, shimEnv, calls>>

\* line 70: dup(kmsg_fd); on failure kmsg_fd is a raw descriptor nobody owns
Dup ==
    /\ pc = "dup"
    /\ \E out \in {"Ok"} \cup OpErrnos :
        /\ oplog' = Log("activate", "dup", out)
        /\ IF out = "Ok"
           THEN /\ fds' = [fds EXCEPT !.open = @ \cup {"kmsg_fd_err"}]
                /\ pc' = "spawn"
                /\ UNCHANGED <<done, result>>
           ELSE /\ StepErr("When duplicating /dev/kmsg fd", ErrnoCause(out))
                /\ UNCHANGED fds
    /\ UNCHANGED <<mode, argv, fs, fs0, prop, store, logged, exitStatus,
                   child, waitRes, execArgv, execCount, shimEnv, calls>>

NoChild == [state |-> "none", exited |-> FALSE, code |-> 0, env |-> {},
            stdout |-> "", stderr |-> ""]

\* lines 72-78: the Command owns both descriptors and is dropped at the end
\* of the statement, whether spawn succeeded or not
SpawnSetsOwnEnv ==
    /\ pc = "spawn"
    /\ shimEnv' = shimEnv \cup {"LANG"}
    /\ \E out \in {"Ok"} \cup OpErrnos :
        /\ oplog' = Log("activate", "spawn", out)
        /\ fds' = CloseFds({"kmsg_fd", "kmsg_fd_err"})
        /\ IF out = "Ok"
           THEN /\ child' = [state |-> "running", exited |-> FALSE, code |-> 0,
                             env |-> shimEnv', stdout |-> "kmsg_fd",
                             stderr |-> "kmsg_fd_err"]
                /\ pc' = "wait"
                /\ UNCHANGED <<done, result>>
           ELSE /\ StepErr("When activating", ErrnoCause(out))
                /\ UNCHANGED child
    /\ UNCHANGED <<mode, argv, fs, fs0, prop, store, logged, exitStatus,
                   waitRes, execArgv, execCount, calls>>

SpawnSharedFd ==
    /\ pc = "spawn"
    /\ \E out \in {"Ok"} \cup OpErrnos :
        /\ oplog' = Log("activate", "spawn", out)
        /\ fds' = [open |-> fds.open \ {"kmsg_fd"},
                   closes |-> [fds.closes EXCEPT !["kmsg_fd"] = @ + 2]]
        /\ IF out = "Ok"
           THEN /\ child' = [state |-> "running", exited |-> FALSE, code |-> 0,
                             env |-> shimEnv \cup {"LANG"},
                             stdout |-> "kmsg_fd", stderr |-> "kmsg_fd"]
                /\ pc' = "wait"
                /\ UNCHANGED <<done, result>>
           ELSE /\ StepErr("When activating", ErrnoCause(out))
                /\ UNCHANGED child
    /\ UNCHANGED <<mode, argv, fs, fs0, prop, store, logged, exitStatus,
                   waitRes, execArgv, execCount, shimEnv, calls>>

Spawn ==
    /\ pc = "spawn"
    /\ \E out \in {"Ok"} \cup OpErrnos :
        /\ oplog' = Log("activate", "spawn", out)
        /\ fds' = CloseFds({"kmsg_fd", "kmsg_fd_err"})
        /\ IF out = "Ok"
           THEN /\ child' = [state |-> "running", exited |-> FALSE, code |-> 0,
                             env |-> shimEnv \cup {"LANG"},
                             stdout |-> "kmsg_fd", stderr |-> "kmsg_fd_err"]
                /\ pc' = "wait"
                /\ UNCHANGED <<done, result>>
           ELSE /\ StepErr("When activating", ErrnoCause(out))
                /\ UNCHANGED child
    /\ UNCHANGED <<mode, argv, fs, fs0, prop, store, logged, exitStatus,
                   waitRes, execArgv, execCount, shimEnv, calls>>

\* the activation program ends: it exits with a code or is killed by a
\* signal, and it stays a zombie unless SIGCHLD is ignored or handled in a
\* way that has the kernel or a handler reap it
ChildTerminates ==
    /\ child.state = "running"
    /\ \E exited \in BOOLEAN, c \in 0..MaxCode, reaped \in BOOLEAN :
        /\ ~exited => c = 0
        /\ child' = [child EXCEPT !.state = IF reaped THEN "reaped" ELSE "zombie",
                                  !.exited = exited, !.code = c]
    /\ UNCHANGED <<mode, pc, argv, fs, fs0, prop, store, oplog, done, result,
                   logged, exitStatus, fds, waitRes, execArgv, execCount,
                   shimEnv, calls>>

\* interpret_waitid_result
InterpretWaitidAllOk(res) == Ok
InterpretWaitidOkOnly(res) ==
    IF res = "Ok" THEN Ok ELSE Err("When waiting", ErrnoCause(res))
InterpretWaitidResult(res) ==
    IF res \in {"Ok", "ECHILD"} THEN Ok
    ELSE Err("When waiting", ErrnoCause(res))

\* check_activation_exit
CheckExitPositiveOnly(code) ==
    IF code.some
    THEN IF code.val <= 0 THEN Ok
         ELSE Err("", [kind |-> "NonzeroExit", errno |-> "", code |-> code.val])
    ELSE Err("", [kind |-> "Signaled", errno |-> "", code |-> 0])
CheckExitNeverOk(code) ==
    IF code.some
    THEN Err("", [kind |-> "NonzeroExit", errno |-> "", code |-> code.val])
    ELSE Err("", [kind |-> "Signaled", errno |-> "", code |-> 0])
CheckExitSignalOnly(code) ==
    IF code.some THEN Ok
    ELSE Err("", [kind |-> "Signaled", errno |-> "", code |-> 0])
CheckActivationExit(code) ==
    IF code.some
    THEN IF code.val = 0 THEN Ok
         ELSE Err("", [kind |-> "NonzeroExit", errno |-> "", code |-> code.val])
    ELSE Err("", [kind |-> "Signaled", errno |-> "", code |-> 0])

\* ExitStatus::code
StatusCode(c) == IF c.exited THEN Some(c.code) ELSE None

\* lines 84-88: child.wait() blocks until the child has ended; a zombie is
\* reaped and its status classified, a child that is already gone is ECHILD
DirectWaitNoBlock ==
    /\ pc = "wait"
    /\ \E out \in {"Ok"} \cup DirectWaitErrnos :
        LET res == IF child.state = "reaped" THEN "ECHILD" ELSE out IN
        /\ (res # out) => out = "Ok"
        /\ oplog' = Log("activate", "wait", res)
        /\ waitRes' = [waitRes EXCEPT !.direct = res]
        /\ IF res = "Ok"
           THEN /\ child' = IF child.state = "zombie"
                            THEN [child EXCEPT !.state = "reaped"] ELSE child
                /\ LET r == IF child.state = "zombie"
                            THEN CheckActivationExit(StatusCode(child)) ELSE Ok IN
                    IF r.ok THEN StepOk("activate", "exec")
                    ELSE StepErr(r.ctx, r.cause)
           ELSE /\ pc' = "waitid"
                /\ UNCHANGED <<child, done, result>>
    /\ UNCHANGED <<mode, argv, fs, fs0, prop, store, logged, exitStatus, fds,
                   execArgv, execCount, shimEnv, calls>>

DirectWaitNoFallback ==
    /\ pc = "wait"
    /\ child.state \in {"zombie", "reaped"}
    /\ \E out \in {"Ok"} \cup DirectWaitErrnos :
        LET res == IF child.state = "reaped" THEN "ECHILD" ELSE out IN
        /\ (res # out) => out = "Ok"
        /\ oplog' = Log("activate", "wait", res)
        /\ waitRes' = [waitRes EXCEPT !.direct = res]
        /\ IF res = "Ok"
           THEN /\ child' = [child EXCEPT !.state = "reaped"]
                /\ LET r == CheckActivationExit(StatusCode(child)) IN
                    IF r.ok THEN StepOk("activate", "exec")
                    ELSE StepErr(r.ctx, r.cause)
           ELSE /\ StepErr("When waiting", ErrnoCause(res))
                /\ UNCHANGED child
    /\ UNCHANGED <<mode, argv, fs, fs0, prop, store, logged, exitStatus, fds,
                   execArgv, execCount, shimEnv, calls>>

DirectWait ==
    /\ pc = "wait"
    /\ child.state \in {"zombie", "reaped"}
    /\ \E out \in {"Ok"} \cup DirectWaitErrnos :
        LET res == IF child.state = "reaped" THEN "ECHILD" ELSE out IN
        /\ (res # out) => out = "Ok"
        /\ oplog' = Log("activate", "wait", res)
        /\ waitRes' = [waitRes EXCEPT !.direct = res]
        /\ IF res = "Ok"
           THEN /\ child' = [child EXCEPT !.state = "reaped"]
                /\ LET r == CheckActivationExit(StatusCode(child)) IN
                    IF r.ok THEN StepOk("activate", "exec")
                    ELSE StepErr(r.ctx, r.cause)
           ELSE /\ pc' = "waitid"
                /\ UNCHANGED <<child, done, result>>
    /\ UNCHANGED <<mode, argv, fs, fs0, prop, store, logged, exitStatus, fds,
                   execArgv, execCount, shimEnv, calls>>

\* lines 88-91: waitid(Id::Pid(pid), WEXITED), its value discarded
Waitid ==
    /\ pc = "waitid"
    /\ \E out \in {"Ok"} \cup WaitidErrnos :
        LET res == IF child.state = "reaped" THEN "ECHILD" ELSE out IN
        /\ (res # out) => out = "Ok"
        /\ oplog' = Log("activate", "waitid", res)
        /\ waitRes' = [waitRes EXCEPT !.waitid = res]
        /\ child' = IF res = "Ok" THEN [child EXCEPT !.state = "reaped"] ELSE child
        /\ LET r == InterpretWaitidResult(res) IN
            IF r.ok THEN StepOk("activate", "exec")
            ELSE StepErr(r.ctx, r.cause)
    /\ UNCHANGED <<mode, argv, fs, fs0, prop, store, logged, exitStatus, fds,
                   execArgv, execCount, shimEnv, calls>>

(***************************************************************************)
(* Handoff Executor, lines 96-104                                          *)
(***************************************************************************)
ExecErrnos == {"ENOENT", "EACCES"}

HandoffArgvFlagLast(a) == a \o <<"--log-target=kmsg">>
HandoffArgv(a) == <<a[1], "--log-target=kmsg">> \o Tail(a)

\* exec keeps the environment of the process: the Command of lines 98-102
\* sets no variable
ExecEnv == shimEnv

Exec ==
    /\ pc = "exec"
    /\ execArgv' = HandoffArgv(argv)
    /\ execCount' = execCount + 1
    /\ \E out \in {"Ok"} \cup ExecErrnos :
        /\ oplog' = Log("handoff", "exec", out)
        /\ IF out = "Ok"
           THEN /\ pc' = "replaced"
                /\ UNCHANGED result
           ELSE /\ pc' = "ret"
                /\ result' = Err("", ErrnoCause(out))
    /\ UNCHANGED <<mode, argv, fs, fs0, prop, store, done, logged, exitStatus,
                   fds, child, waitRes, shimEnv, calls>>

(***************************************************************************)
(* main, lines 211-217                                                     *)
(***************************************************************************)
\* set_var("RUST_BACKTRACE"), kernlog::init().expect(..): a panic if it fails
MainStart ==
    /\ pc = "main"
    /\ shimEnv' = shimEnv \cup {"RUST_BACKTRACE"}
    /\ \E loggerOk \in BOOLEAN :
        IF loggerOk
        THEN /\ pc' = "check_shm"
             /\ UNCHANGED exitStatus
        ELSE /\ pc' = "exited"
             /\ exitStatus' = Exited(PanicStatus)
    /\ UNCHANGED <<mode, argv, fs, fs0, prop, store, oplog, done, result, logged,
                   fds, child, waitRes, execArgv, execCount, calls>>

\* real_main has returned Err(e): log it, then main returns ()
MainReturn ==
    /\ pc = "ret"
    /\ logged' = Append(logged, result)
    /\ exitStatus' = Exited(0)
    /\ pc' = "exited"
    /\ UNCHANGED <<mode, argv, fs, fs0, prop, store, oplog, done, result,
                   fds, child, waitRes, execArgv, execCount, shimEnv, calls>>

(***************************************************************************)
(* The program                                                             *)
(***************************************************************************)
Argvs == {<<"/init">> \o s : s \in UNION {[1..n -> ArgWords] : n \in 0..MaxArgs}}

Props == {[root |-> "private", sub |-> "private"],
          [root |-> "shared", sub |-> "shared"]}

InitCommon ==
    /\ fs \in FsStates
    /\ fs0 = fs
    /\ prop \in Props
    /\ store = [binds |-> 0, ro |-> FALSE]
    /\ oplog = <<>>
    /\ done = <<>>
    /\ result = Unset
    /\ logged = <<>>
    /\ exitStatus = NotExited
    /\ fds = [open |-> {}, closes |-> [n \in FdNames |-> 0]]
    /\ child = NoChild
    /\ waitRes = [direct |-> "", waitid |-> ""]
    /\ execArgv = <<>>
    /\ execCount = 0
    /\ shimEnv = {}
    /\ calls = <<>>

Init ==
    /\ mode = "main"
    /\ pc = "main"
    /\ argv \in Argvs
    /\ InitCommon

\* The steps of unscrew_dev_shm are not among the steps of the program:
\* CheckShm enters them only when IsSymlink holds of what stat(2) returned,
\* and stat never returns the file type of a symlink (UnscrewNeverEntered is
\* an invariant of Spec).  SpecHarness runs them.
UnscrewNeverEntered == pc \notin {"u_remove", "u_create", "u_move", "u_bind"}

Next ==
    \/ MainStart
    \/ CheckShm
    \/ RemountRootShared
    \/ StoreBind
    \/ StoreRemountRO
    \/ OpenKmsg
    \/ Dup
    \/ Spawn
    \/ ChildTerminates
    \/ DirectWait
    \/ Waitid
    \/ Exec
    \/ MainReturn

Spec == Init /\ [][Next]_vars

\* The shim is a running process: a step of it that can be taken is taken.
\* Nothing makes the activation program end, so ChildTerminates is not fair.
ShimStep ==
    \/ MainStart
    \/ CheckShm
    \/ RemountRootShared
    \/ StoreBind
    \/ StoreRemountRO
    \/ OpenKmsg
    \/ Dup
    \/ Spawn
    \/ DirectWait
    \/ Waitid
    \/ Exec
    \/ MainReturn

SpecLive == Init /\ [][Next]_vars /\ WF_vars(ShimStep)

(***************************************************************************)
(* The functions called one at a time, as mod tests and mod integration    *)
(* call them.  A call record keeps the function, its argument, the value   *)
(* it returned, the system calls it made, and the file system and mount    *)
(* state before and after it.  "repair_shm" is the Shm Repairer as         *)
(* real_main runs it: the check of lines 47-54 with the call of            *)
(* unscrew_dev_shm it guards.                                               *)
(***************************************************************************)
Machine == [fs |-> fs, prop |-> prop, store |-> store]

WaitidInputs == {"Ok", "ECHILD", "EINTR", "EINVAL", "EPERM"}
ExitInputs == {None} \cup {Some(n) : n \in (0 - MaxCode)..MaxCode}

NewCall(fn, warg, carg) ==
    [fn |-> fn, warg |-> warg, carg |-> carg, res |-> Unset, ops |-> <<>>,
     pre |-> Machine, post |-> Machine]

HCallEffects(fn, entry) ==
    /\ pc = "h_idle"
    /\ Len(calls) < MaxCalls
    /\ calls' = Append(calls, NewCall(fn, "", None))
    /\ pc' = entry
    /\ oplog' = <<>>
    /\ result' = Unset
    /\ UNCHANGED <<mode, argv, fs, fs0, prop, store, done, logged, exitStatus,
                   fds, child, waitRes, execArgv, execCount, shimEnv>>

HCallRepairShm == HCallEffects("repair_shm", "check_shm")
HCallUnscrew == HCallEffects("unscrew_dev_shm", "u_remove")
HCallRemountRoot == HCallEffects("remount_root_shared", "remount_root")
HCallRemountStore == HCallEffects("remount_nix_store_readonly", "store_bind")

\* tests::waitid_*: interpret_waitid_result(input)
HCallInterpretWaitid ==
    /\ pc = "h_idle"
    /\ Len(calls) < MaxCalls
    /\ \E w \in WaitidInputs :
        /\ calls' = Append(calls, NewCall("interpret_waitid_result", w, None))
        /\ result' = InterpretWaitidResult(w)
    /\ pc' = "h_ret"
    /\ oplog' = <<>>
    /\ UNCHANGED <<mode, argv, fs, fs0, prop, store, done, logged, exitStatus,
                   fds, child, waitRes, execArgv, execCount, shimEnv>>

\* tests::activation_exit_*: check_activation_exit(input)
HCallCheckActivationExit ==
    /\ pc = "h_idle"
    /\ Len(calls) < MaxCalls
    /\ \E c \in ExitInputs :
        /\ calls' = Append(calls, NewCall("check_activation_exit", "", c))
        /\ result' = CheckActivationExit(c)
    /\ pc' = "h_ret"
    /\ oplog' = <<>>
    /\ UNCHANGED <<mode, argv, fs, fs0, prop, store, done, logged, exitStatus,
                   fds, child, waitRes, execArgv, execCount, shimEnv>>

\* the called function has returned
HReturn ==
    /\ pc = "h_ret"
    /\ calls' = [calls EXCEPT ![Len(calls)].res = result,
                              ![Len(calls)].ops = oplog,
                              ![Len(calls)].post = Machine]
    /\ pc' = "h_idle"
    /\ UNCHANGED <<mode, argv, fs, fs0, prop, store, oplog, done, result, logged,
                   exitStatus, fds, child, waitRes, execArgv, execCount, shimEnv>>

InitHarness ==
    /\ mode = "harness"
    /\ pc = "h_idle"
    /\ argv = <<"/init">>
    /\ InitCommon

NextHarness ==
    \/ HCallRepairShm
    \/ HCallUnscrew
    \/ HCallRemountRoot
    \/ HCallRemountStore
    \/ HCallInterpretWaitid
    \/ HCallCheckActivationExit
    \/ CheckShm
    \/ URemove
    \/ UCreate
    \/ UMove
    \/ UBind
    \/ RemountRootShared
    \/ StoreBind
    \/ StoreRemountRO
    \/ HReturn

SpecHarness == InitHarness /\ [][NextHarness]_vars

(***************************************************************************)
(* Properties of the program (Spec)                                        *)
(***************************************************************************)
StepOrder == <<"shm", "root", "store", "activate", "handoff">>
StepIndex(st) == CHOOSE i \in 1..Len(StepOrder) : StepOrder[i] = st
Range(q) == {q[i] : i \in 1..Len(q)}
OpsOf(st) == SelectSeq(oplog, LAMBDA e : e.step = st)
OpNames(q) == [i \in 1..Len(q) |-> q[i].op]

\* a system call result that ends real_main: every failure but that of the
\* direct wait, and but the fallback wait's ECHILD
Fatal(e) ==
    /\ e.res # "Ok"
    /\ e.op # "wait"
    /\ ~(e.op = "waitid" /\ e.res = "ECHILD")

Returned == pc \in {"ret", "exited"}

\* C1: the steps run in the order shm check, make-root-shared,
\* make-store-read-only, activation, handoff; a step has begun only when
\* every earlier step has returned success; a failing call is the last call
\* the process makes, so no spawn and no exec follow a failure.
C1_PipelineOrder ==
    /\ \A i, j \in 1..Len(oplog) :
          i < j => StepIndex(oplog[i].step) <= StepIndex(oplog[j].step)
    /\ \A i \in 1..Len(oplog) : \A k \in 1..(StepIndex(oplog[i].step) - 1) :
          StepOrder[k] \in Range(done)
    /\ \A i \in 1..Len(done) : done[i] = StepOrder[i]
    /\ \A i \in 1..(Len(oplog) - 1) : ~Fatal(oplog[i])
    /\ (oplog # <<>> /\ Fatal(Last(oplog))) =>
          /\ Returned
          /\ ~result.ok
          /\ Last(oplog).step \notin Range(done)
    /\ Len(OpsOf("handoff")) = execCount
    /\ execCount <= 1
    /\ Len(SelectSeq(oplog, LAMBDA e : e.op = "spawn")) <= 1

C1_Witness ==
    /\ pc = "exited"
    /\ done = <<"shm", "root">>
    /\ OpNames(oplog) = <<"metadata", "mount_rec_shared", "mount_bind", "mount_remount_ro">>
    /\ child.state = "none"
    /\ execCount = 0

\* C2 (as stated): when a step up to and including the handoff has failed
\* and the process has terminated, the error was logged and the exit status
\* is not 0.
C2_FailureExitsNonzero ==
    (pc = "exited" /\ result # Unset) =>
        /\ logged = <<result>>
        /\ exitStatus.exited
        /\ exitStatus.status # 0

ChildEndedBadly ==
    /\ child.state \in {"zombie", "reaped"}
    /\ (~child.exited \/ child.code # 0)

ExitError(c) ==
    IF c.exited
    THEN Err("", [kind |-> "NonzeroExit", errno |-> "", code |-> c.code])
    ELSE Err("", [kind |-> "Signaled", errno |-> "", code |-> 0])

WaitOver == pc \notin {"wait", "waitid"}

\* C3 (as stated): whenever the activation program ended with a nonzero code
\* or by a signal and the wait is over, whichever wait saw it, real_main has
\* returned NonzeroExit(n) or Signaled and no exec was attempted.
C3_BadExitAbortsAnyBranch ==
    (ChildEndedBadly /\ WaitOver) =>
        /\ Returned
        /\ result = ExitError(child)
        /\ execCount = 0

\* C3 (amended): when the direct wait returned the status of an activation
\* program that ended with a nonzero code n or by a signal, real_main
\* returns NonzeroExit(n) or Signaled and no exec is attempted; when the
\* direct wait failed, the status is never looked at: the fallback wait's
\* Ok or ECHILD makes the activation step succeed whatever the child did.
C3_BadExitAbortsDirectWait ==
    /\ (ChildEndedBadly /\ waitRes.direct = "Ok") =>
          /\ Returned
          /\ result = ExitError(child)
          /\ execCount = 0
          /\ "activate" \notin Range(done)
    /\ (ChildEndedBadly /\ waitRes.waitid \in {"Ok", "ECHILD"}) =>
          /\ "activate" \in Range(done)
          /\ result.cause.kind \notin {"NonzeroExit", "Signaled"}

C3_Witness ==
    /\ waitRes.direct = "Ok"
    /\ child.exited
    /\ child.code = MaxCode
    /\ pc = "exited"
    /\ logged = <<ExitError(child)>>

\* C4: the direct wait comes first; waitid is called exactly when the direct
\* wait returned an error; waitid's ECHILD makes the activation succeed and
\* the handoff go ahead; any other error of waitid ends real_main with that
\* error and without an exec.
C4_TwoStageWait ==
    LET ops == OpsOf("activate")
        n == Len(ops)
    IN  /\ \A i \in 1..n : ops[i].op = "waitid" =>
              (i > 1 /\ ops[i - 1].op = "wait" /\ ops[i - 1].res # "Ok")
        /\ \A i \in 1..n : (ops[i].op = "wait" /\ ops[i].res # "Ok") =>
              IF i = n THEN pc = "waitid" ELSE ops[i + 1].op = "waitid"
        /\ \A i \in 1..n : (ops[i].op = "wait" /\ ops[i].res = "Ok") =>
              (i = n /\ pc # "waitid")
        /\ \A i \in 1..n : (ops[i].op = "waitid" /\ ops[i].res = "ECHILD") =>
              /\ "activate" \in Range(done)
              /\ (pc = "exec" \/ execCount = 1)
        /\ \A i \in 1..n : (ops[i].op = "waitid" /\ ops[i].res \notin {"Ok", "ECHILD"}) =>
              /\ Returned
              /\ result = Err("When waiting", ErrnoCause(ops[i].res))
              /\ execCount = 0
              /\ "activate" \notin Range(done)

C4_Witness ==
    /\ waitRes.direct = "ECHILD"
    /\ waitRes.waitid = "ECHILD"
    /\ pc = "replaced"
    /\ execCount = 1

(***************************************************************************)
(* Properties of the functions (SpecHarness)                               *)
(***************************************************************************)
\* the calls that have returned
ReturnedCalls == {i \in 1..Len(calls) : i < Len(calls) \/ pc = "h_idle"}

\* C5: interpret_waitid_result maps Ok to success, Err(ECHILD) to success,
\* and Err(e) for every other errno e to an error that carries e.
C5_InterpretWaitid ==
    \A i \in ReturnedCalls : calls[i].fn = "interpret_waitid_result" =>
        /\ calls[i].warg = "Ok" => calls[i].res = Ok
        /\ calls[i].warg = "ECHILD" => calls[i].res = Ok
        /\ calls[i].warg \notin {"Ok", "ECHILD"} =>
              /\ ~calls[i].res.ok
              /\ calls[i].res.cause = ErrnoCause(calls[i].warg)

C5_Witness ==
    /\ pc = "h_idle"
    /\ Len(calls) = 2
    /\ calls[1].fn = "interpret_waitid_result"
    /\ calls[1].warg = "ECHILD"
    /\ calls[1].res.ok
    /\ calls[2].fn = "interpret_waitid_result"
    /\ calls[2].warg = "EINVAL"
    /\ ~calls[2].res.ok

\* C6: check_activation_exit maps Some(0) to success, Some(n) for every
\* nonzero n, positive or negative, to a NonzeroExit error reporting n, and
\* None to a Signaled error.
C6_CheckActivationExit ==
    \A i \in ReturnedCalls : calls[i].fn = "check_activation_exit" =>
        LET c == calls[i].carg
            r == calls[i].res
        IN  /\ (c.some /\ c.val = 0) => r = Ok
            /\ (c.some /\ c.val # 0) =>
                  /\ ~r.ok
                  /\ r.cause.kind = "NonzeroExit"
                  /\ r.cause.code = c.val
            /\ ~c.some => (~r.ok /\ r.cause.kind = "Signaled")

C6_Witness ==
    /\ pc = "h_idle"
    /\ Len(calls) = 2
    /\ calls[1].fn = "check_activation_exit"
    /\ calls[1].carg = Some(0 - MaxCode)
    /\ calls[1].res.cause.kind = "NonzeroExit"
    /\ calls[2].fn = "check_activation_exit"
    /\ calls[2].carg = None
    /\ calls[2].res.cause.kind = "Signaled"

(***************************************************************************)
(* Properties of the Shm Repairer and of the Mount Normalizer              *)
(***************************************************************************)
\* C7 (as stated): when /dev/shm is a symlink at the start of the run and
\* the repair step has succeeded, the step removed the symlink, /dev/shm is
\* a directory and the mount that was on /run/shm is mounted on it.
C7_SymlinkIsRepaired ==
    (fs0.devShm = "symlink" /\ "shm" \in Range(done)) =>
        /\ "remove_file" \in Range(OpNames(OpsOf("shm")))
        /\ fs.devShm = "dir"
        /\ fs0.mntRun # <<>>
        /\ fs.mntDev # <<>>
        /\ Last(fs.mntDev) = Last(fs0.mntRun)

ShmChecked == \E i \in 1..Len(oplog) : oplog[i].op = "metadata"

\* C8 (as stated): when /dev/shm is absent, a plain directory or a mount
\* point, the repair step makes no call that changes the file system or the
\* mounts, returns success, and the next thing real_main does is
\* make-root-shared.
C8_NonSymlinkSkipped ==
    (fs0.devShm # "symlink" /\ ShmChecked) =>
        /\ OpNames(OpsOf("shm")) = <<"metadata">>
        /\ fs = fs0
        /\ "shm" \in Range(done)
        /\ (Len(oplog) = 1 => pc = "remount_root")

\* C8 (amended): when /dev/shm is a plain directory or a mount point, the
\* repair step only looks at it, returns success, and real_main goes on to
\* make-root-shared; when /dev/shm is absent the look itself fails with
\* "no such file", nothing is changed, and real_main returns that error
\* without reaching make-root-shared.
C8_DirectorySkipped ==
    /\ (fs0.devShm = "dir" /\ ShmChecked) =>
          /\ OpsOf("shm") = <<[step |-> "shm", op |-> "metadata", res |-> "Ok"]>>
          /\ fs = fs0
          /\ "shm" \in Range(done)
          /\ (Len(oplog) = 1 => pc = "remount_root")
    /\ (fs0.devShm = "absent" /\ ShmChecked) =>
          /\ oplog = <<[step |-> "shm", op |-> "metadata", res |-> "ENOENT"]>>
          /\ fs = fs0
          /\ done = <<>>
          /\ Returned
          /\ result = Err("When checking /dev/shm", ErrnoCause("ENOENT"))

C8_Witness ==
    /\ fs0.devShm = "dir"
    /\ fs0.mntDev = <<"shm">>
    /\ pc = "remount_root"
    /\ done = <<"shm">>

MutatingOps == {"remove_file", "remove_dir_all", "create_dir_all", "mount_move",
                "mount_bind"}

\* C9: when the Shm Repairer is run directly after a run of it (or of the
\* repair proper, unscrew_dev_shm) that succeeded, the second run makes no
\* remove, create, move-mount or bind-mount call, succeeds, and leaves the
\* file system and the mounts as the first run left them.
C9_RepairIdempotent ==
    \A i \in ReturnedCalls :
        (/\ i > 1
         /\ calls[i].fn = "repair_shm"
         /\ calls[i - 1].fn \in {"repair_shm", "unscrew_dev_shm"}
         /\ calls[i - 1].res.ok) =>
            /\ calls[i].res = Ok
            /\ Range(OpNames(calls[i].ops)) \cap MutatingOps = {}
            /\ calls[i].post = calls[i - 1].post

C9_Witness ==
    /\ pc = "h_idle"
    /\ Len(calls) = 2
    /\ calls[1].fn = "unscrew_dev_shm"
    /\ calls[1].pre.fs.devShm = "symlink"
    /\ calls[1].res.ok
    /\ calls[1].post.fs.devShm = "dir"
    /\ calls[1].post.fs.mntDev = <<"shm">>
    /\ calls[2].fn = "repair_shm"
    /\ calls[2].res.ok

\* C10: make_store_readonly makes the bind mount of /nix/store first and the
\* read-only remount second and nothing else; it succeeds only if both did;
\* when the bind succeeded and the remount failed it returns the error, and
\* no activation program is spawned and no exec attempted unless the store
\* is read-only.
C10_StoreReadOnly ==
    LET ops == OpsOf("store")
        n == Len(ops)
    IN  /\ n <= 2
        /\ n >= 1 => ops[1].op = "mount_bind"
        /\ n = 2 => (ops[1].res = "Ok" /\ ops[2].op = "mount_remount_ro")
        /\ (n = 1 /\ ops[1].res = "Ok") => pc = "store_ro"
        /\ "store" \in Range(done) <=> (n = 2 /\ ops[1].res = "Ok" /\ ops[2].res = "Ok")
        /\ (n = 2 /\ ops[2].res # "Ok") =>
              /\ Returned
              /\ result = Err("When remounting /nix/store read-only",
                              ErrnoCause(ops[2].res))
              /\ ~store.ro
              /\ Last(oplog) = ops[2]
        /\ (n = 1 /\ ops[1].res # "Ok") =>
              /\ Returned
              /\ result = Err("When bind mounting /nix/store", ErrnoCause(ops[1].res))
        /\ (child.state # "none" \/ execCount > 0
              \/ \E i \in 1..Len(oplog) : oplog[i].step \in {"activate", "handoff"}) =>
              (store.ro /\ store.binds = 1)

C10_Witness ==
    /\ pc = "exited"
    /\ store = [binds |-> 1, ro |-> FALSE]
    /\ result.ctx = "When remounting /nix/store read-only"
    /\ child.state = "none"
    /\ execCount = 0


Spawned == child.state # "none"

\* C12: the child's stdout and stderr are two different descriptors of
\* /dev/kmsg; from the spawn on, whichever way the wait goes, each of the two
\* has been closed in the shim exactly once and neither is open in the shim,
\* so neither is open or closed again when the exec is attempted or
\* real_main returns.
C12_DescriptorsClosedOnce ==
    Spawned =>
        /\ child.stdout \in FdNames
        /\ child.stderr \in FdNames
        /\ child.stdout # child.stderr
        /\ fds.open = {}
        /\ \A n \in FdNames : fds.closes[n] = 1

C12_Witness ==
    /\ Spawned
    /\ waitRes.direct = "ECHILD"
    /\ waitRes.waitid = "ECHILD"
    /\ execCount = 1
    /\ fds = [open |-> {}, closes |-> [n \in FdNames |-> 1]]


RunOver == pc \in {"exited", "replaced"}

\* an error of a system call other than the fallback wait's ECHILD
OtherError(e) == e.res # "Ok" /\ ~(e.op = "waitid" /\ e.res = "ECHILD")

\* C13 (as stated): the fallback wait's ECHILD is the only error counted as
\* success; a run in which any call of any step returned any other error
\* ends with the error logged once and without an attempt at the handoff.
C13_EveryOtherErrorTerminal ==
    (RunOver /\ \E i \in 1..Len(oplog) : OtherError(oplog[i])) =>
        /\ pc = "exited"
        /\ logged = <<result>>
        /\ execCount = 0

\* C13 (amended): the fallback wait's ECHILD is the only error counted as
\* success; an error of the direct wait is not terminal either, it is
\* followed by the fallback wait; every other error of any call is the last
\* call of the run, real_main returns it, main logs it once, and no handoff
\* is attempted after it (the failing call may be the exec itself).
C13_ErrorsTerminalButWaits ==
    /\ Len(logged) <= 1
    /\ \A i \in 1..Len(oplog) :
        LET e == oplog[i] IN
        e.res # "Ok" =>
            IF e.op = "waitid" /\ e.res = "ECHILD"
            THEN "activate" \in Range(done)
            ELSE IF e.op = "wait"
            THEN IF i = Len(oplog) THEN pc = "waitid" ELSE oplog[i + 1].op = "waitid"
            ELSE /\ i = Len(oplog)
                 /\ Returned
                 /\ ~result.ok
                 /\ result.cause = ErrnoCause(e.res)
                 /\ pc = "exited" => logged = <<result>>
                 /\ e.op # "exec" => execCount = 0

C13_Witness ==
    /\ pc = "exited"
    /\ waitRes.waitid = "EINTR"
    /\ logged = <<Err("When waiting", ErrnoCause("EINTR"))>>
    /\ execCount = 0


(***************************************************************************)
(* Properties of the supervision in time (SpecLive)                        *)
(***************************************************************************)
ChildEnded == child.state \in {"zombie", "reaped"}

\* C14: while the activation process runs the shim sits in the direct wait:
\* it attempts no exec and does not exit, for as long as that lasts; an exec
\* is attempted only after the child is gone; and once the child has ended
\* the shim eventually attempts the exec or terminates.
C14_BlocksUntilChildEnds ==
    /\ [](child.state = "running" =>
            (pc = "wait" /\ execCount = 0 /\ ~exitStatus.exited))
    /\ [](execCount > 0 => child.state = "reaped")
    /\ (ChildEnded ~> (execCount > 0 \/ pc = "exited"))

C14_Witness ==
    /\ child.state = "reaped"
    /\ waitRes.direct = "EINVAL"
    /\ waitRes.waitid = "Ok"
    /\ execCount = 1
    /\ pc = "replaced"


(***************************************************************************)
(* Properties of the functions, continued (SpecHarness)                    *)
(***************************************************************************)
AllShared == [root |-> "shared", sub |-> "shared"]

SubStepRank(op) ==
    CASE op \in {"remove_file", "remove_dir_all"} -> 1
      [] op = "create_dir_all" -> 2
      [] op = "mount_move" -> 3
      [] op = "mount_bind" -> 4
      [] OTHER -> 0

SubStepContext(op) ==
    CASE op = "remove_file" -> "When removing /dev/shm symlink"
      [] op = "remove_dir_all" -> "When removing old /dev/shm"
      [] op = "create_dir_all" -> "When creating new /dev/shm"
      [] op = "mount_move" -> "When relocating /dev/shm"
      [] op = "mount_bind" -> "When bind mounting /run/shm to /dev/shm"
      [] OTHER -> ""

\* C16: unscrew_dev_shm runs remove (unlink of the symlink, or recursive
\* removal of a directory; nothing when the path is absent), create,
\* move-mount and bind-mount in this order; a sub-step that fails is the
\* last one run and the returned error names it; after a run in which all
\* succeeded /dev/shm is a directory and /dev/shm and /run/shm show the same
\* mount, the one that was on /run/shm.
C16_RepairSubSteps ==
    \A i \in ReturnedCalls : calls[i].fn = "unscrew_dev_shm" =>
        LET c == calls[i]
            n == Len(c.ops)
        IN  /\ n >= 1
            /\ SubStepRank(c.ops[1].op) = IF c.pre.fs.devShm = "absent" THEN 2 ELSE 1
            /\ c.pre.fs.devShm = "symlink" => c.ops[1].op = "remove_file"
            /\ c.pre.fs.devShm = "dir" => c.ops[1].op = "remove_dir_all"
            /\ \A k \in 1..(n - 1) :
                  /\ c.ops[k].res = "Ok"
                  /\ SubStepRank(c.ops[k + 1].op) = SubStepRank(c.ops[k].op) + 1
            /\ c.res.ok <=> (c.ops[n].op = "mount_bind" /\ c.ops[n].res = "Ok")
            /\ ~c.res.ok =>
                  /\ c.ops[n].res # "Ok"
                  /\ c.res.ctx = SubStepContext(c.ops[n].op)
                  /\ c.res.cause = ErrnoCause(c.ops[n].res)
            /\ c.res.ok =>
                  /\ c.post.fs.devShm = "dir"
                  /\ c.post.fs.mntDev # <<>>
                  /\ c.post.fs.mntRun # <<>>
                  /\ Last(c.post.fs.mntDev) = Last(c.post.fs.mntRun)
                  /\ Last(c.post.fs.mntDev) = Last(c.pre.fs.mntRun)

C16_Witness ==
    /\ pc = "h_idle"
    /\ Len(calls) = 1
    /\ calls[1].fn = "unscrew_dev_shm"
    /\ calls[1].pre.fs.devShm = "dir"
    /\ OpNames(calls[1].ops) =
          <<"remove_dir_all", "create_dir_all", "mount_move", "mount_bind">>
    /\ calls[1].res.ok
    /\ calls[1].post.fs.mntDev = calls[1].post.fs.mntRun


ExitedZero == waitRes.direct = "Ok" /\ child.exited /\ child.code = 0

\* C17: when the direct wait has reported exit code 0 (every earlier step
\* having succeeded), the activation step has succeeded, the exec has not
\* been skipped, it is eventually attempted, and it is attempted once only.
C17_ExitZeroProceeds ==
    /\ [](ExitedZero =>
            /\ done = <<"shm", "root", "store", "activate">>
            /\ pc = "exec" <=> execCount = 0
            /\ execCount <= 1)
    /\ (ExitedZero ~> execCount = 1)
    /\ [][execCount = 1 => execCount' = 1]_vars

C17_Witness ==
    /\ ExitedZero
    /\ execCount = 1
    /\ Last(oplog) = [step |-> "handoff", op |-> "exec", res |-> "Ok"]
    /\ Len(SelectSeq(oplog, LAMBDA e : e.op = "exec")) = 1


(***************************************************************************)
(* Properties of the program, continued (Spec)                             *)
(***************************************************************************)
\* C18: LANG is set in the environment of the activation child and nowhere
\* else: the shim's own environment holds only what main set before the
\* pipeline, the activation step leaves it alone, and the environment the
\* service manager gets from the exec has no LANG set by the shim.
C18_LangOnlyInChild ==
    /\ [](/\ "LANG" \notin shimEnv
          /\ Spawned => child.env = shimEnv \cup {"LANG"}
          /\ execCount > 0 => "LANG" \notin ExecEnv)
    /\ [][(pc \in {"open_kmsg", "dup", "spawn", "wait", "waitid"}) =>
            shimEnv' = shimEnv]_vars

C18_Witness ==
    /\ Spawned
    /\ "LANG" \in child.env
    /\ execCount = 1
    /\ ExecEnv = {"RUST_BACKTRACE"}
    /\ pc = "replaced"


OkCount(st, op) ==
    Len(SelectSeq(oplog, LAMBDA e : e.step = st /\ e.op = op /\ e.res = "Ok"))

\* C19: nothing is rolled back: at every moment, and so when a later step
\* has failed, each mount change a successful call made is still in place
\* (the mount moved onto /dev/shm, the shared root, the bind mount of the
\* store and its read-only flag), and once real_main has returned the shim
\* makes no further call: no mount, no unmount, no spawn, no exec.
C19_NoRollback ==
    /\ [](/\ Len(fs.mntDev) = Len(fs0.mntDev) + OkCount("shm", "mount_move")
          /\ OkCount("root", "mount_rec_shared") > 0 => prop = AllShared
          /\ store.binds = OkCount("store", "mount_bind")
          /\ store.ro <=> OkCount("store", "mount_remount_ro") > 0)
    /\ [][Returned => UNCHANGED <<fs, prop, store, oplog, child, execCount>>]_vars

C19_Witness ==
    /\ pc = "exited"
    /\ result.ctx = "When opening /dev/kmsg"
    /\ prop = AllShared
    /\ store = [binds |-> 1, ro |-> TRUE]
    /\ Last(oplog).op = "open_kmsg"
    /\ child.state = "none"


\* C20 (as stated): whenever real_main has returned an error after it
\* opened /dev/kmsg (the dup failed, the spawn failed, or a wait failed), no
\* descriptor of /dev/kmsg that the shim opened or duplicated is open in it.
C20_NoDescriptorLeftOpen ==
    (Returned /\ OkCount("activate", "open_kmsg") > 0) => fds.open = {}

====
